---- MODULE Spec2Model ----
(***************************************************************************)
(* Boid simulation: the simulation loop (BoidSimulation.update, reloadWorld,*)
(* updateBoidCount, getBoidNeighbours), the per-boid update                 *)
(* (Boid.updateAndMove) and the rules whose source is present (Separation,  *)
(* Cohesion, ObstacleAvoidance).                                            *)
(*                                                                          *)
(* Numbers.  The program computes with IEEE doubles.  The model uses        *)
(* fixed-point integers: the real x is the integer x * Scale, and every     *)
(* division truncates toward zero.  The boid-count target alone is kept in  *)
(* halves (2 * boidCount), because the "Boid count" slider has no step and  *)
(* so hands out fractional targets.                                         *)
(***************************************************************************)
EXTENDS Integers, Sequences, FiniteSets, TLC

\* Fixed-point resolution: 1.0 is Scale.
Scale == 1000

\* Math.random() returns n / RandDen for some n in 0 .. RandDen - 1.
RandDen == 4000

(***************************************************************************)
(* Bounds of the model.                                                     *)
(***************************************************************************)
\* update() is called at most MaxTicks times.
MaxTicks == 2
\* At most MaxEdits changes are made to simParams between ticks.
MaxEdits == 1
\* The same two bounds for the simulation whose world name is set to an
\* unregistered name and back.
MaxTicksUnknownWorld == 4
MaxEditsUnknownWorld == 2

(***************************************************************************)
(* THREE.Vector3 and Math, in fixed point.                                  *)
(***************************************************************************)
Vec(x, y, z) == [x |-> x, y |-> y, z |-> z]

ZeroVec == Vec(0, 0, 0)

\* A vector whose components are NaN (the result of dividing zero by zero).
NaNVec == [nan |-> TRUE]

Abs(n) == IF n < 0 THEN -n ELSE n

\* a / b truncated toward zero (b # 0).
TruncDiv(a, b) ==
    IF (a < 0) = (b < 0) THEN Abs(a) \div Abs(b) ELSE -(Abs(a) \div Abs(b))

\* a * b / c for a, b >= 0 and c > 0, truncated, without forming a * b: the
\* larger factor is split into its multiple of c and the rest.
MulDiv(a, b, c) ==
    IF a > b THEN (a \div c) * b + ((a % c) * b) \div c
    ELSE (b \div c) * a + ((b % c) * a) \div c

VAdd(a, b) == Vec(a.x + b.x, a.y + b.y, a.z + b.z)

VSub(a, b) == Vec(a.x - b.x, a.y - b.y, a.z - b.z)

\* v.multiplyScalar(s) for an integer s.
VTimes(v, s) == Vec(v.x * s, v.y * s, v.z * s)

\* v.divideScalar(s)
DivideScalar(v, s) == Vec(TruncDiv(v.x, s), TruncDiv(v.y, s), TruncDiv(v.z, s))

\* v.lengthSq()
LengthSq(v) == v.x * v.x + v.y * v.y + v.z * v.z

RECURSIVE SqrtSearch(_, _, _)
\* The largest r in lo .. hi with r * r <= n.
SqrtSearch(n, lo, hi) ==
    IF lo >= hi THEN lo
    ELSE LET mid == (lo + hi + 1) \div 2
         IN  IF mid * mid <= n THEN SqrtSearch(n, mid, hi)
             ELSE SqrtSearch(n, lo, mid - 1)

\* Math.sqrt(n), truncated.
FloorSqrt(n) == SqrtSearch(n, 0, 46340)

\* Math.sqrt(n), rounded up.
CeilSqrt(n) == LET r == FloorSqrt(n) IN IF r * r = n THEN r ELSE r + 1

\* v.length(), truncated.
Length(v) == FloorSqrt(LengthSq(v))

\* v.setLength(l) = v.normalize().multiplyScalar(l).  normalize() leaves the
\* zero vector alone.  The length is rounded up before the division, so that
\* the result is never longer than l.
SetLength(v, l) ==
    LET len == CeilSqrt(LengthSq(v))
        Comp(c) == IF c < 0 THEN -MulDiv(-c, l, len) ELSE MulDiv(c, l, len)
    IN  IF len = 0 THEN v ELSE Vec(Comp(v.x), Comp(v.y), Comp(v.z))

\* Math.random() * (max - min) + min, for Math.random() = n / RandDen.
RandomBetween(n, min, max) == TruncDiv(n * (max - min), RandDen) + min

RECURSIVE PowInt(_, _, _)
\* acc * base^q for an integer q (a negative q divides).
PowInt(base, q, acc) ==
    IF q = 0 \/ acc = 0 THEN acc
    ELSE IF q > 0 THEN PowInt(base, q - 1, acc * base)
    ELSE PowInt(base, q + 1, acc \div base)

\* Math.pow(base, e) for an integer base >= 1 and a fixed-point exponent e:
\* exact at whole exponents, linear between two of them.
Pow(base, e) ==
    LET q  == IF e >= 0 THEN e \div Scale ELSE -((-e + Scale - 1) \div Scale)
        f  == e - q * Scale
        lo == PowInt(base, q, Scale)
        hi == PowInt(base, q + 1, Scale)
    IN  lo + ((hi - lo) * f) \div Scale

(***************************************************************************)
(* The world registry.  World, Bounds3D and the three world descriptions    *)
(* (defaultWorld, smallWorld, obstacles1) are imported by BoidSimulation;   *)
(* a world has a name, its bounds (get3DBoundaries) and its cylinders       *)
(* (obstacles.cylinders, each a basePoint (x, z) and a radius).             *)
(***************************************************************************)
Bounds3D(xMin, xMax, yMin, yMax, zMin, zMax) ==
    [xMin |-> xMin * Scale, xMax |-> xMax * Scale,
     yMin |-> yMin * Scale, yMax |-> yMax * Scale,
     zMin |-> zMin * Scale, zMax |-> zMax * Scale]

defaultWorld ==
    [name |-> "Default", bounds |-> Bounds3D(-100, 100, 0, 100, -100, 100),
     cylinders |-> << >>]

smallWorld ==
    [name |-> "Small World", bounds |-> Bounds3D(-50, 50, 0, 50, -50, 50),
     cylinders |-> << >>]

obstacles1 ==
    [name |-> "Obstacles 1", bounds |-> Bounds3D(-100, 100, 0, 100, -100, 100),
     cylinders |-> << [basePoint |-> [x |-> -15 * Scale, z |-> 0],
                       radius |-> 5 * Scale] >>]

\* BoidSimulation.worlds
worlds == << defaultWorld, smallWorld, obstacles1 >>

RECURSIVE GetNames(_)
\* WorldTools.getNames
GetNames(ws) ==
    IF ws = << >> THEN << >> ELSE << Head(ws).name >> \o GetNames(Tail(ws))

\* BoidSimulation.worldNames
worldNames == GetNames(worlds)

\* What a call that can throw yields: the Error it threw, or its value.
Thrown(err) == [thrown |-> TRUE, error |-> err]

Returned(v) == [thrown |-> FALSE, value |-> v]

\* getWorldByName, had it fallen back to the first world instead of throwing.
GetWorldByNameFallback(ws, worldName) ==
    LET hits == {i \in 1 .. Len(ws) : ws[i].name = worldName}
    IN  IF hits = {} THEN Returned(ws[1])
        ELSE Returned(ws[CHOOSE i \in hits : \A j \in hits : i <= j])

\* WorldTools.getWorldByName: the first world of that name, or
\* throw new Error("World not found.").
GetWorldByName(ws, worldName) ==
    LET hits == {i \in 1 .. Len(ws) : ws[i].name = worldName}
    IN  IF hits = {} THEN Thrown("World not found.")
        ELSE Returned(ws[CHOOSE i \in hits : \A j \in hits : i <= j])

RenderingModes == {"Simple", "Photorealistic"}

(***************************************************************************)
(* Dropoffs (simParams.dropoffRule, read by the rules).  The Dropoff        *)
(* classes are imported by BoidSimulation; fn maps a distance to a weight.  *)
(***************************************************************************)
NoDropoff(constant) == [name |-> "NoDropoff", constant |-> constant]

\* ExponentialDropoff(base): the weight is base^(-distance).
ExponentialDropoff(base) == [name |-> "ExponentialDropoff", constant |-> base]

\* InversePropDropoff(constant): the weight is constant / max(distance, eps).
InversePropDropoff(constant) ==
    [name |-> "InversePropDropoff", constant |-> constant]

\* ProportionalDropoff(visibilityRadius, constant): the radius is the number
\* the constructor was given.
ProportionalDropoff(visibilityRadius, constant) ==
    [name |-> "ProportionalDropoff", constant |-> constant,
     radius |-> visibilityRadius]

RECURSIVE ExpDecay(_, _, _)
\* acc / base^q for a fixed-point base > 1 and a natural q.
ExpDecay(base, q, acc) ==
    IF q = 0 \/ acc = 0 THEN acc
    ELSE ExpDecay(base, q - 1, (acc * Scale) \div base)

\* dropoff.fn(distance), for a distance >= 0.
DropoffFn(dropoff, distance) ==
    CASE dropoff.name = "NoDropoff" -> dropoff.constant
      [] dropoff.name = "ExponentialDropoff" ->
             LET q  == distance \div Scale
                 lo == ExpDecay(dropoff.constant, q + 1, Scale)
                 hi == ExpDecay(dropoff.constant, q, Scale)
             IN  hi - ((hi - lo) * (distance % Scale)) \div Scale
      [] dropoff.name = "InversePropDropoff" ->
             (dropoff.constant * Scale)
                 \div (IF distance < 1 THEN 1 ELSE distance)
      [] dropoff.name = "ProportionalDropoff" ->
             IF distance >= dropoff.radius THEN 0
             ELSE MulDiv(dropoff.constant, dropoff.radius - distance,
                         dropoff.radius)

\* simParams.visibilityThreshold as the field initialiser of simParams sets it.
DefaultVisibilityThreshold == 50 * Scale

\* BoidSimulation.dropoffs: built by the field initialisers, from the
\* simParams the class declares, before the constructor body runs.
dropoffs ==
    << NoDropoff(Scale),
       ExponentialDropoff(2718),
       InversePropDropoff(Scale),
       ProportionalDropoff(DefaultVisibilityThreshold, Scale) >>

\* BoidSimulation.enabledDropoffKeys
enabledDropoffKeys == << 0, 1, 2, 3 >>

\* What simParams.dropoffRule refers to: an object that simParams was built
\* with, an element of dropoffs, or undefined.
Owned(dropoff) == [at |-> "simParams", dropoff |-> dropoff]

Element(i) ==
    IF i \in 0 .. (Len(dropoffs) - 1) THEN [at |-> "dropoffs", index |-> i]
    ELSE [at |-> "undefined"]

\* The object behind simParams.dropoffRule.
Deref(ref) ==
    CASE ref.at = "simParams" -> ref.dropoff
      [] ref.at = "dropoffs" -> dropoffs[ref.index + 1]
      [] ref.at = "undefined" -> [name |-> "undefined"]

(***************************************************************************)
(* Boids.                                                                   *)
(***************************************************************************)
\* new Boid(id, options): randomBias starts as the zero vector.
NewBoid(id, position, velocity) ==
    [id |-> id, position |-> position, velocity |-> velocity,
     randomBias |-> ZeroVec]

\* Boid.generateWithRandomPosAndVel(id, {positionBounds, ...}): draw holds the
\* six values of Math.random(), as numerators over RandDen.  The velocity
\* bounds are the defaults, -0.2 .. 0.2, -0.02 .. 0.02 and -0.2 .. 0.2.
GenerateWithRandomPosAndVel(id, positionBounds, draw) ==
    NewBoid(id,
        Vec(RandomBetween(draw.px, positionBounds.xMin, positionBounds.xMax),
            RandomBetween(draw.py, positionBounds.yMin, positionBounds.yMax),
            RandomBetween(draw.pz, positionBounds.zMin, positionBounds.zMax)),
        Vec(RandomBetween(draw.vx, -(2 * Scale) \div 10, (2 * Scale) \div 10),
            RandomBetween(draw.vy, -(2 * Scale) \div 100, (2 * Scale) \div 100),
            RandomBetween(draw.vz, -(2 * Scale) \div 10, (2 * Scale) \div 10)))

\* isOtherBoidVisible, had it compared with <=.
IsOtherBoidVisibleInclusive(this, other, visibilityThreshold) ==
    LengthSq(VSub(this.position, other.position))
        <= visibilityThreshold * visibilityThreshold

\* this.position.distanceTo(other.position) < visibilityThreshold
IsOtherBoidVisible(this, other, visibilityThreshold) ==
    LengthSq(VSub(this.position, other.position))
        < visibilityThreshold * visibilityThreshold

\* Boid.toOther(other): the vector from the other boid to this one.
ToOther(this, other) == VSub(this.position, other.position)

(***************************************************************************)
(* Rules.  A rule is its name and its weight; calculateVector yields the    *)
(* rule's vector, already multiplied by the weight, or throws.              *)
(***************************************************************************)
\* new Rule(weight, options): minWeight defaults to 0, maxWeight to 2 * weight;
\* alwaysApplyToLeaderBoids is false unless the rule class sets it.
Rule(name, weight) ==
    [name |-> name, weight |-> weight, minWeight |-> 0, maxWeight |-> weight * 2,
     alwaysApplyToLeaderBoids |-> FALSE]

\* BoidSimulation.rules, in the order in which they are evaluated.
rules ==
    << Rule("Separation", (8 * Scale) \div 10),
       Rule("Cohesion", Scale),
       [Rule("Avoid Obstacle Boundary", 10 * Scale)
           EXCEPT !.alwaysApplyToLeaderBoids = TRUE] >>

\* v.multiplyScalar(w) for a fixed-point w >= 0.
MultiplyScalar(v, w) ==
    LET Comp(c) == IF c < 0 THEN -MulDiv(-c, w, Scale) ELSE MulDiv(c, w, Scale)
    IN  Vec(Comp(v.x), Comp(v.y), Comp(v.z))

\* The RuleArguments that BoidSimulation.update builds for one boid.
RuleArguments(neighbours, sp) == [neighbours |-> neighbours, simParams |-> sp]

RECURSIVE SeparationSum(_, _, _, _)
\* The loop of SeparationRule.calculateVector over args.neighbours.
SeparationSum(thisBoid, neighbours, dropoff, acc) ==
    IF neighbours = << >> THEN acc
    ELSE LET toOther == ToOther(thisBoid, Head(neighbours))
             weight  == DropoffFn(dropoff, Length(toOther))
         IN  SeparationSum(thisBoid, Tail(neighbours), dropoff,
                 [separation |-> VAdd(acc.separation,
                                      MultiplyScalar(toOther, weight)),
                  weightSum  |-> acc.weightSum + weight])

\* SeparationRule.calculateVector
SeparationRule(rule, thisBoid, args) ==
    IF Len(args.neighbours) = 0 THEN Returned(ZeroVec)
    ELSE IF Deref(args.simParams.dropoffRule).name = "undefined"
    THEN Thrown("TypeError")
    ELSE LET sum == SeparationSum(thisBoid, args.neighbours,
                        Deref(args.simParams.dropoffRule),
                        [separation |-> ZeroVec, weightSum |-> 0])
         IN  IF sum.weightSum = 0 THEN Returned(ZeroVec)
             ELSE Returned(MultiplyScalar(
                      SetLength(DivideScalar(VTimes(sum.separation, Scale),
                                             sum.weightSum), Scale),
                      rule.weight))

RECURSIVE CohesionSum(_, _, _, _)
\* The loop of CohesionRule.calculateVector over args.neighbours.
CohesionSum(thisBoid, neighbours, dropoff, acc) ==
    IF neighbours = << >> THEN acc
    ELSE LET weight == DropoffFn(dropoff,
                           Length(ToOther(thisBoid, Head(neighbours))))
         IN  CohesionSum(thisBoid, Tail(neighbours), dropoff,
                 [centre    |-> VAdd(acc.centre,
                                     MultiplyScalar(Head(neighbours).position,
                                                    weight)),
                  weightSum |-> acc.weightSum + weight])

\* CohesionRule.calculateVector without the return for an empty neighbour
\* list: the loop adds nothing and the centre is divided by a zero weightSum.
CohesionRuleWithoutEarlyReturn(rule, thisBoid, args) ==
    IF Len(args.neighbours) > 0 /\ "dropoff" \notin DOMAIN args
    THEN Thrown("TypeError")
    ELSE Returned(NaNVec)

\* CohesionRule.calculateVector: it reads args.dropoff, which RuleArguments
\* does not have, so the read of args.dropoff.fn throws a TypeError.
CohesionRule(rule, thisBoid, args) ==
    IF Len(args.neighbours) = 0 THEN Returned(ZeroVec)
    ELSE IF "dropoff" \notin DOMAIN args THEN Thrown("TypeError")
    ELSE LET sum == CohesionSum(thisBoid, args.neighbours, args.dropoff,
                        [centre |-> ZeroVec, weightSum |-> 0])
         IN  IF sum.weightSum = 0 THEN Returned(NaNVec)
             ELSE Returned(MultiplyScalar(
                      SetLength(VSub(DivideScalar(VTimes(sum.centre, Scale),
                                                  sum.weightSum),
                                     thisBoid.position), Scale),
                      rule.weight))

\* ObstacleAvoidanceRule.SHARPNESS
SHARPNESS == 3

RECURSIVE ObstacleSumGrowing(_, _, _)
\* The loop of calculateVector, had the exponent lost its minus sign.
ObstacleSumGrowing(thisBoid, cylinders, finalVector) ==
    IF cylinders = << >> THEN finalVector
    ELSE LET cylinder == Head(cylinders)
             avoidanceVector ==
                 Vec(thisBoid.position.x - cylinder.basePoint.x, 0,
                     thisBoid.position.z - cylinder.basePoint.z)
             raw == Length(avoidanceVector) - cylinder.radius
             distance == IF raw < 0 THEN 0 ELSE raw
             avoidanceMagnitude == Pow(SHARPNESS, distance - 10 * Scale)
         IN  ObstacleSumGrowing(thisBoid, Tail(cylinders),
                 VAdd(finalVector,
                      SetLength(avoidanceVector, avoidanceMagnitude)))

RECURSIVE ObstacleSum(_, _, _)
\* The loop of ObstacleAvoidanceRule.calculateVector over the cylinders.
ObstacleSum(thisBoid, cylinders, finalVector) ==
    IF cylinders = << >> THEN finalVector
    ELSE LET cylinder == Head(cylinders)
             avoidanceVector ==
                 Vec(thisBoid.position.x - cylinder.basePoint.x, 0,
                     thisBoid.position.z - cylinder.basePoint.z)
             raw == Length(avoidanceVector) - cylinder.radius
             distance == IF raw < 0 THEN 0 ELSE raw
             avoidanceMagnitude == Pow(SHARPNESS, -(distance - 10 * Scale))
         IN  ObstacleSum(thisBoid, Tail(cylinders),
                 VAdd(finalVector,
                      SetLength(avoidanceVector, avoidanceMagnitude)))

\* ObstacleAvoidanceRule.calculateVector, on the world the rule holds.
ObstacleAvoidanceRule(rule, thisBoid, world) ==
    Returned(MultiplyScalar(ObstacleSum(thisBoid, world.cylinders, ZeroVec),
                            rule.weight))

\* rule.calculateVector(thisBoid, args)
CalculateVector(rule, thisBoid, args, world) ==
    CASE rule.name = "Separation" -> SeparationRule(rule, thisBoid, args)
      [] rule.name = "Cohesion" -> CohesionRule(rule, thisBoid, args)
      [] rule.name = "Avoid Obstacle Boundary" ->
             ObstacleAvoidanceRule(rule, thisBoid, world)

\* calculateVector, had Separation taken the difference to a neighbour in
\* place (thisBoid.position.sub(neighbour.position)).
ObjectsAfterSubtractingInPlace(rule, thisBoid, args, world) ==
    [thisBoid |->
         IF rule.name = "Separation" /\ Len(args.neighbours) > 0
         THEN [thisBoid EXCEPT
                  !.position = ToOther(thisBoid, Head(args.neighbours))]
         ELSE thisBoid,
     args |-> args,
     world |-> world]

\* The objects a call of rule.calculateVector(thisBoid, args) was handed, as
\* the call leaves them.  Every method that writes to its receiver
\* (addScaledVector, divideScalar, normalize, multiplyScalar, sub,
\* subVectors, setLength, add) is called on a vector that the call created
\* (separation, centre, avoidanceVector, finalVector); the boid, the
\* neighbours, simParams and the world are only read.
ObjectsAfterCalculateVector(rule, thisBoid, args, world) ==
    [thisBoid |-> thisBoid, args |-> args, world |-> world]

RECURSIVE RulesLoop(_, _, _, _)
\* The loop of Boid.updateAndMove over the rules: each rule's vector is added
\* to the velocity; a rule that throws ends the loop with what was added so
\* far.  value is the boid, args and world the objects the rules were handed,
\* as the loop leaves them.
RulesLoop(rs, thisBoid, args, world) ==
    IF rs = << >>
    THEN [thrown |-> FALSE, value |-> thisBoid, args |-> args, world |-> world]
    ELSE LET ruleVector == CalculateVector(Head(rs), thisBoid, args, world)
             after == ObjectsAfterCalculateVector(Head(rs), thisBoid, args,
                                                  world)
         IN  IF ruleVector.thrown
             THEN [thrown |-> TRUE, error |-> ruleVector.error,
                   value |-> after.thisBoid, args |-> after.args,
                   world |-> after.world]
             ELSE RulesLoop(Tail(rs),
                      [after.thisBoid EXCEPT
                          !.velocity = VAdd(@, ruleVector.value)],
                      after.args, after.world)

\* capSpeed, had it never rescaled the velocity.
CapSpeedNever(thisBoid, maxSpeed) == thisBoid

\* Boid.capSpeed
CapSpeed(thisBoid, maxSpeed) ==
    IF LengthSq(thisBoid.velocity) > maxSpeed * maxSpeed
    THEN [thisBoid EXCEPT !.velocity = SetLength(@, maxSpeed)]
    ELSE thisBoid

\* Math.random() * randomnessPerTimestep - randomnessPerTimestep / 2
RandomStep(n, randomnessPerTimestep) ==
    TruncDiv(n * randomnessPerTimestep, RandDen) - randomnessPerTimestep \div 2

\* The three components added to the bias, for the three values of
\* Math.random() in draw.
RandomSteps(draw, randomnessPerTimestep) ==
    Vec(RandomStep(draw.x, randomnessPerTimestep),
        RandomStep(draw.y, randomnessPerTimestep),
        RandomStep(draw.z, randomnessPerTimestep))

\* randomBias.divideScalar(100).  The quotient of two doubles is zero only
\* if the dividend is: each component is rounded away from zero, so that a
\* component that is not zero stays so at the resolution of the model.
RescaleBias(v) ==
    LET Comp(c) == IF c < 0 THEN -((-c + 99) \div 100) ELSE (c + 99) \div 100
    IN  Vec(Comp(v.x), Comp(v.y), Comp(v.z))

\* updateRandomBias without the scaling back of a bias above the limit.
UpdateRandomBiasNeverScaledBack(thisBoid, randomnessPerTimestep, randomnessLimit, draw) ==
    [thisBoid EXCEPT
        !.randomBias = VAdd(@, RandomSteps(draw, randomnessPerTimestep))]

\* Boid.updateRandomBias: draw holds the three values of Math.random().
UpdateRandomBias(thisBoid, randomnessPerTimestep, randomnessLimit, draw) ==
    LET added == VAdd(thisBoid.randomBias,
                      RandomSteps(draw, randomnessPerTimestep))
    IN  [thisBoid EXCEPT !.randomBias =
            IF LengthSq(added) > randomnessLimit * randomnessLimit
            THEN RescaleBias(added)
            ELSE added]

\* addRandomnessToVelocity, had it updated the bias without adding it.
AddRandomnessBiasOnly(thisBoid, sp, draw) ==
    UpdateRandomBias(thisBoid, sp.randomnessPerTimestep, sp.randomnessLimit,
                     draw)

\* Boid.addRandomnessToVelocity
AddRandomnessToVelocity(thisBoid, sp, draw) ==
    LET b == UpdateRandomBias(thisBoid, sp.randomnessPerTimestep,
                              sp.randomnessLimit, draw)
    IN  [b EXCEPT !.velocity = VAdd(@, b.randomBias)]

\* move, had it advanced the position by the velocity without the bias.
MoveWithoutBias(thisBoid) ==
    [thisBoid EXCEPT
        !.position = VAdd(@, VSub(thisBoid.velocity, thisBoid.randomBias))]

\* Boid.move
Move(thisBoid) ==
    [thisBoid EXCEPT !.position = VAdd(@, thisBoid.velocity)]

(***************************************************************************)
(* BoidSimulation.                                                          *)
(***************************************************************************)
VARIABLES
    simParams,          \* BoidSimulation.simParams (boidCount in halves)
    currentWorldName,   \* BoidSimulation.currentWorldName
    currentRendering,   \* BoidSimulation.currentRendering
    boids,              \* BoidSimulation.boids
    nextBoidId,         \* BoidSimulation.nextBoidId
    obstacleAvoidRule,  \* BoidSimulation.obstacleAvoidRule: the world it holds
    pc,                 \* where the running call of update() stands
    idx,                \* the index in boids of the boid being updated
    args,               \* the neighbours (indices in boids) handed to that boid
    error,              \* what the last call of update() threw, or "none"
    ticks,              \* the number of calls of update() so far
    edits,              \* the number of changes made to simParams so far
    snapshot,           \* the boids as they were when this tick's updates began
    issuedIds,          \* every id newBoidId has returned, in order
    countLog,           \* what the last run of updateBoidCount met and did
    enabledDropoff,     \* BoidSimulation.enabledDropoff
    clicked,            \* the last dropoff checkbox clicked and its new value
    weights,            \* the weight field of each rule of BoidSimulation.rules
    requested,          \* the last weight asked of a weight control, and the rule
    leaders             \* the boids in the leader role: id and ticks as leader

vars ==
    << simParams, currentWorldName, currentRendering, boids, nextBoidId,
       obstacleAvoidRule, pc, idx, args, error, ticks, edits, snapshot,
       issuedIds, countLog, enabledDropoff, clicked, weights, requested, leaders >>

\* reloadWorld without the call of obstacleAvoidRule.setWorld.
ReloadWorldKeepingRuleWorld(sp, rule) ==
    LET found == GetWorldByName(worlds, sp.worldName)
    IN  IF found.thrown THEN found
        ELSE Returned(
            [simParams |-> [sp EXCEPT !.worldDimens = found.value.bounds],
             obstacleAvoidRule |-> rule,
             boids |-> << >>,
             currentWorldName |-> sp.worldName,
             currentRendering |-> sp.rendering])

\* BoidSimulation.reloadWorld: throws what getWorldByName throws, before it
\* has changed anything; otherwise sets the world bounds, hands the world to
\* the obstacle rule, removes the boids and records the world and rendering.
ReloadWorld(sp, rule) ==
    LET found == GetWorldByName(worlds, sp.worldName)
    IN  IF found.thrown THEN found
        ELSE Returned(
            [simParams |-> [sp EXCEPT !.worldDimens = found.value.bounds],
             obstacleAvoidRule |-> [rule EXCEPT !.world = found.value],
             boids |-> << >>,
             currentWorldName |-> sp.worldName,
             currentRendering |-> sp.rendering])

\* newBoidId, had it not advanced the counter.
NewBoidIdStuck(next) == [id |-> next, nextBoidId |-> next]

\* BoidSimulation.newBoidId
NewBoidId(next) == [id |-> next, nextBoidId |-> next + 1]

RECURSIVE GenerateLoop(_, _, _, _, _, _)
\* updateBoidCount: while (difference > 0).  difference is in halves.
GenerateLoop(bs, next, difference, sp, draws, issued) ==
    IF difference > 0
    THEN LET new  == NewBoidId(next)
             boid == GenerateWithRandomPosAndVel(new.id, sp.worldDimens,
                                                 Head(draws))
         IN  GenerateLoop(Append(bs, boid), new.nextBoidId, difference - 2,
                          sp, Tail(draws), Append(issued, new.id))
    ELSE [boids |-> bs, nextBoidId |-> next, difference |-> difference,
          issued |-> issued]

RECURSIVE RemoveLoopFromFront(_, _)
\* The removal loop, had it taken the boids from the front (shift for pop).
RemoveLoopFromFront(bs, difference) ==
    IF difference < 0
    THEN IF bs = << >>
         THEN [boids |-> bs, difference |-> difference, popUndefined |-> TRUE,
               error |-> "none"]
         ELSE RemoveLoopFromFront(Tail(bs), difference + 2)
    ELSE [boids |-> bs, difference |-> difference, popUndefined |-> FALSE,
          error |-> "none"]

RECURSIVE RemoveLoopUnguarded(_, _)
\* The removal loop without the test for an empty pop: removeFromScene reads
\* the mesh of undefined and throws.
RemoveLoopUnguarded(bs, difference) ==
    IF difference < 0
    THEN IF bs = << >>
         THEN [boids |-> bs, difference |-> difference, popUndefined |-> TRUE,
               error |-> "TypeError"]
         ELSE RemoveLoopUnguarded(SubSeq(bs, 1, Len(bs) - 1), difference + 2)
    ELSE [boids |-> bs, difference |-> difference, popUndefined |-> FALSE,
          error |-> "none"]

RECURSIVE RemoveLoop(_, _)
\* updateBoidCount: while (difference < 0), with the break on an empty pop.
RemoveLoop(bs, difference) ==
    IF difference < 0
    THEN IF bs = << >>
         THEN [boids |-> bs, difference |-> difference, popUndefined |-> TRUE,
               error |-> "none"]
         ELSE RemoveLoop(SubSeq(bs, 1, Len(bs) - 1), difference + 2)
    ELSE [boids |-> bs, difference |-> difference, popUndefined |-> FALSE,
          error |-> "none"]

\* The number of boids GenerateLoop generates from this difference.
Generations(difference) ==
    IF difference > 0 THEN (difference + 1) \div 2 ELSE 0

\* BoidSimulation.updateBoidCount
UpdateBoidCount(bs, next, sp, draws) ==
    IF sp.boidCount = 2 * Len(bs)
    THEN [boids |-> bs, nextBoidId |-> next, issued |-> << >>,
          popUndefined |-> FALSE, error |-> "none"]
    ELSE LET grown  == GenerateLoop(bs, next, sp.boidCount - 2 * Len(bs), sp,
                                    draws, << >>)
             shrunk == RemoveLoop(grown.boids, grown.difference)
         IN  [boids |-> shrunk.boids, nextBoidId |-> grown.nextBoidId,
              issued |-> grown.issued, popUndefined |-> shrunk.popUndefined,
              error |-> shrunk.error]

\* BoidSimulation.getBoidNeighbours: the indices of the other boids that the
\* boid at index i sees, in the order of the collection.
GetBoidNeighbours(bs, i, visibilityThreshold) ==
    SelectSeq([j \in 1 .. Len(bs) |-> j],
              LAMBDA j : j # i /\ IsOtherBoidVisible(bs[i], bs[j],
                                                     visibilityThreshold))

\* The neighbour objects behind the indices, as they are now.
Resolve(bs, neighbours) == [k \in 1 .. Len(neighbours) |-> bs[neighbours[k]]]

(***************************************************************************)
(* The values the model draws.                                              *)
(***************************************************************************)
\* Math.random() in generateWithRandomPosAndVel: positions at the centre of
\* the x axis or a little beside it, velocities along x in either direction.
GenerateDraws ==
    { [px |-> p, py |-> 2000, pz |-> 2000, vx |-> v, vy |-> 2000, vz |-> 2000] :
        p \in {2000, 2101}, v \in {0, 3999} }

\* Math.random() in updateRandomBias.
BiasDraws == { [x |-> 3999, y |-> 2000, z |-> 2000], [x |-> 0, y |-> 2000, z |-> 3000] }

\* The targets set on simParams.boidCount, in halves: whole and fractional
\* ones (the slider has no step) and, set by a caller, a negative one.
BoidCountInputs == {-2, 0, 2, 3, 4}

\* World names set on simParams.worldName: the registered ones and one that
\* is not registered.
WorldNameInputs == {worldNames[i] : i \in 1 .. Len(worldNames)} \cup {"Nowhere"}

MaxSpeedInputs == {Scale \div 10, (15 * Scale) \div 100}

\* The visibility radius: the least the slider gives, one equal to the
\* distance between two of the generated positions, and the default.
VisibilityInputs == {5 * Scale, (101 * Scale) \div 20, 25 * Scale}

RandomnessPerTimestepInputs == {0, (2 * Scale) \div 100}

RandomnessLimitInputs == {0, Scale \div 10}

\* The dropoffRule of the params handed to the constructor: the one the
\* class declares, or a proportional dropoff built with the radius that the
\* params give as visibilityThreshold.
DropoffRuleParams == {NoDropoff(Scale), ProportionalDropoff(5 * Scale, Scale)}

\* The params handed to the constructor.
InitParams ==
    [boidCount |-> 4,
     visibilityThreshold |-> 5 * Scale,
     maxSpeed |-> Scale \div 10,
     worldName |-> defaultWorld.name,
     worldDimens |-> defaultWorld.bounds,
     rendering |-> "Simple",
     randomnessPerTimestep |-> (2 * Scale) \div 100,
     randomnessLimit |-> Scale \div 10,
     dropoffRule |-> Owned(NoDropoff(Scale)),
     boidType |-> "Boid",
     changeOfLeaderBoidOptions |->
         [maxLeaderTimestep |-> 200,
          eccentricityThreshold |-> Scale \div 2,
          neighbourCountThreshold |-> 8,
          becomeLeaderProbability |-> Scale \div 1000]]

(***************************************************************************)
(* The state after new BoidSimulation(params): the field initialisers, then *)
(* reloadWorld().                                                           *)
(***************************************************************************)
Constructed(params) ==
    LET loaded == ReloadWorld(params, [world |-> defaultWorld])
    IN  /\ ~loaded.thrown
        /\ simParams = loaded.value.simParams
        /\ obstacleAvoidRule = loaded.value.obstacleAvoidRule
        /\ boids = loaded.value.boids
        /\ currentWorldName = loaded.value.currentWorldName
        /\ currentRendering = loaded.value.currentRendering
        /\ nextBoidId = 0
        /\ pc = "idle"
        /\ idx = 0
        /\ args = << >>
        /\ error = "none"
        /\ ticks = 0
        /\ edits = 0
        /\ snapshot = << >>
        /\ issuedIds = << >>
        /\ countLog = [ran |-> FALSE, before |-> << >>, after |-> << >>,
                       target |-> 0, popUndefined |-> FALSE,
                       error |-> "none"]
        /\ enabledDropoff = [j \in 0 .. 3 |-> j = 0]
        /\ clicked = [index |-> -1, value |-> FALSE]
        /\ weights = [k \in 1 .. Len(rules) |-> rules[k].weight]
        /\ requested = [rule |-> 0, weight |-> 0]
        /\ leaders = {}

Init ==
    \E dropoffRule \in DropoffRuleParams :
        Constructed([InitParams EXCEPT !.dropoffRule = Owned(dropoffRule)])

(***************************************************************************)
(* The configuration surface: simParams is changed between two calls of     *)
(* update(), never during one.                                              *)
(***************************************************************************)
EditWithin(field, value, maxEdits) ==
    /\ pc = "idle"
    /\ edits < maxEdits
    /\ simParams[field] # value
    /\ simParams' = [simParams EXCEPT ![field] = value]
    /\ edits' = edits + 1
    /\ UNCHANGED << currentWorldName, currentRendering, boids, nextBoidId,
                    obstacleAvoidRule, pc, idx, args, error, ticks, snapshot,
                    issuedIds, countLog, enabledDropoff, clicked, weights, requested, leaders >>

Edit(field, value) == EditWithin(field, value, MaxEdits)

SetWorldName == \E n \in WorldNameInputs : Edit("worldName", n)

SetRendering == \E r \in RenderingModes : Edit("rendering", r)

SetBoidCount == \E c \in BoidCountInputs : Edit("boidCount", c)

SetMaxSpeed == \E m \in MaxSpeedInputs : Edit("maxSpeed", m)

SetVisibilityThreshold ==
    \E v \in VisibilityInputs : Edit("visibilityThreshold", v)

SetRandomnessPerTimestep ==
    \E r \in RandomnessPerTimestepInputs : Edit("randomnessPerTimestep", r)

SetRandomnessLimit ==
    \E l \in RandomnessLimitInputs : Edit("randomnessLimit", l)

\* The weights typed into the weight controls: one within the bounds of
\* every rule, one above them and one below.
WeightInputs == {Scale \div 2, 25 * Scale, -Scale}

\* The rules with the weights they hold now.
WithWeights(rs, ws) == [k \in 1 .. Len(rs) |-> [rs[k] EXCEPT !.weight = ws[k]]]

\* What a number control with bounds min and max and step 0.1 writes to its
\* field when asked for v: v brought into the bounds, then rounded to the
\* step.  Nothing is thrown or reported.
SetValue(v, min, max) ==
    LET step == Scale \div 10
        bounded == IF v < min THEN min ELSE IF v > max THEN max ELSE v
    IN  IF bounded >= 0 THEN ((2 * bounded + step) \div (2 * step)) * step
        ELSE -(((2 * (-bounded) + step) \div (2 * step)) * step)

\* A weight is typed into the control of a rule.
SetRuleWeight ==
    \E k \in 1 .. Len(rules), w \in WeightInputs :
        /\ pc = "idle"
        /\ edits < MaxEdits
        /\ weights' = [weights EXCEPT
                          ![k] = SetValue(w, rules[k].minWeight,
                                          rules[k].maxWeight)]
        /\ requested' = [rule |-> k, weight |-> w]
        /\ edits' = edits + 1
        /\ UNCHANGED << simParams, currentWorldName, currentRendering, boids,
                        nextBoidId, obstacleAvoidRule, pc, idx, args, error,
                        ticks, snapshot, issuedIds, countLog, enabledDropoff,
                        clicked, leaders >>

\* The i that the onChange callback registered in iteration k of the loop
\* over the dropoffs reads when it runs: the loop declares i with var, so
\* every callback reads the one i, which the finished loop left at
\* dropoffs.length.
CapturedI(k) == Len(dropoffs)

\* The onChange callback of a dropoff checkbox, called with the new value v.
OnChange(i, v, sp, enabled) ==
    [simParams |-> IF v THEN [sp EXCEPT !.dropoffRule = Element(i)] ELSE sp,
     enabledDropoff |->
         [j \in DOMAIN enabled |->
             IF j \in {enabledDropoffKeys[n] : n \in 1 .. Len(enabledDropoffKeys)}
             THEN (IF i = j THEN v ELSE ~v)
             ELSE enabled[j]]]

\* A click on the checkbox of dropoff k: the control writes the new value to
\* enabledDropoff[k] and calls onChange with it.
ToggleDropoff ==
    \E k \in 0 .. (Len(dropoffs) - 1) :
        LET v == ~enabledDropoff[k]
            changed == OnChange(CapturedI(k), v, simParams,
                                [enabledDropoff EXCEPT ![k] = v])
        IN  /\ pc = "idle"
            /\ edits < MaxEdits
            /\ simParams' = changed.simParams
            /\ enabledDropoff' = changed.enabledDropoff
            /\ clicked' = [index |-> k, value |-> v]
            /\ edits' = edits + 1
            /\ UNCHANGED << currentWorldName, currentRendering, boids,
                            nextBoidId, obstacleAvoidRule, pc, idx, args,
                            error, ticks, snapshot, issuedIds, countLog,
                            weights, requested, leaders >>

(***************************************************************************)
(* The leader role of the boids of type ChangeOfLeader (the class is        *)
(* imported by BoidSimulation; its options are in simParams).               *)
(***************************************************************************)
\* The eccentricity of a boid's trajectory, as computed in a tick: below the
\* default threshold or above it.
EccentricityInputs == {Scale \div 4, (3 * Scale) \div 4}

\* Math.random() in the sampling of leadership.
LeaderDraws == {0, 3999}

\* The ids of the boids in the leader role.
LeaderIds(ls) == {l.id : l \in ls}

\* The role step, had it not looked at the neighbour count of a follower.
ChangeOfLeaderIgnoringNeighbours(ls, id, neighbourCount, eccentricity, draw, options) ==
    IF id \in LeaderIds(ls)
    THEN LET l == CHOOSE m \in ls : m.id = id
         IN  IF l.timestep >= options.maxLeaderTimestep
                \/ neighbourCount > options.neighbourCountThreshold
             THEN ls \ {l}
             ELSE (ls \ {l}) \cup {[id |-> id, timestep |-> l.timestep + 1]}
    ELSE IF /\ eccentricity > options.eccentricityThreshold
            /\ draw * Scale < options.becomeLeaderProbability * RandDen
         THEN ls \cup {[id |-> id, timestep |-> 0]}
         ELSE ls

\* The role step of one boid in a tick.  A leader goes back to follower
\* after maxLeaderTimestep ticks as leader, or at once when it has more
\* neighbours than neighbourCountThreshold.  A follower with at most
\* neighbourCountThreshold neighbours and an eccentricity above
\* eccentricityThreshold becomes leader with becomeLeaderProbability.
ChangeOfLeader(ls, id, neighbourCount, eccentricity, draw, options) ==
    IF id \in LeaderIds(ls)
    THEN LET l == CHOOSE m \in ls : m.id = id
         IN  IF l.timestep >= options.maxLeaderTimestep
                \/ neighbourCount > options.neighbourCountThreshold
             THEN ls \ {l}
             ELSE (ls \ {l}) \cup {[id |-> id, timestep |-> l.timestep + 1]}
    ELSE IF /\ neighbourCount <= options.neighbourCountThreshold
            /\ eccentricity > options.eccentricityThreshold
            /\ draw * Scale < options.becomeLeaderProbability * RandDen
         THEN ls \cup {[id |-> id, timestep |-> 0]}
         ELSE ls

\* The rules evaluated for a boid: a leader is exempt from the rules that do
\* not set alwaysApplyToLeaderBoids.
RulesFor(id, ls, rs) ==
    IF id \in LeaderIds(ls)
    THEN SelectSeq(rs, LAMBDA r : r.alwaysApplyToLeaderBoids)
    ELSE rs

\* The values set on changeOfLeaderBoidOptions.neighbourCountThreshold.
NeighbourCountThresholdInputs == {0, 8}

SetNeighbourCountThreshold ==
    \E n \in NeighbourCountThresholdInputs :
        /\ pc = "idle"
        /\ edits < MaxEdits
        /\ simParams.changeOfLeaderBoidOptions.neighbourCountThreshold # n
        /\ simParams' =
               [simParams EXCEPT
                   !.changeOfLeaderBoidOptions.neighbourCountThreshold = n]
        /\ edits' = edits + 1
        /\ UNCHANGED << currentWorldName, currentRendering, boids, nextBoidId,
                        obstacleAvoidRule, pc, idx, args, error, ticks,
                        snapshot, issuedIds, countLog, enabledDropoff,
                        clicked, weights, requested, leaders >>

(***************************************************************************)
(* BoidSimulation.update, step by step.                                     *)
(***************************************************************************)
\* updateAndMove with the randomness added before the speed cap.
UpdateAndMoveOrderRandomnessFirst == << "rules", "random", "cap", "move" >>

\* The statements of Boid.updateAndMove, in their order.
UpdateAndMoveOrder == << "rules", "cap", "random", "move" >>

\* Where updateAndMove stands after the statement stage: at the next
\* statement or, after the last one, back in the map over the boids.
StageAfter(stage) ==
    LET k == CHOOSE i \in 1 .. Len(UpdateAndMoveOrder) :
                 UpdateAndMoveOrder[i] = stage
    IN  IF k = Len(UpdateAndMoveOrder) THEN "boid"
        ELSE UpdateAndMoveOrder[k + 1]

\* The test of update(), had it asked for a reload in every call.
NeedsReloadAlways(sp, worldName, rendering) == TRUE

\* The test of update() for reloading the world.
NeedsReload(sp, worldName, rendering) ==
    worldName # sp.worldName \/ rendering # sp.rendering

\* update() starts: the world is reloaded if the world name or the rendering
\* changed.  What reloadWorld throws leaves update().
Update_BeginWithin(maxTicks) ==
    /\ pc = "idle"
    /\ ticks < maxTicks
    /\ ticks' = ticks + 1
    /\ IF NeedsReload(simParams, currentWorldName, currentRendering)
       THEN LET loaded == ReloadWorld(simParams, obstacleAvoidRule)
            IN  IF loaded.thrown
                THEN /\ error' = loaded.error
                     /\ pc' = "idle"
                     /\ UNCHANGED << simParams, obstacleAvoidRule, boids,
                                     currentWorldName, currentRendering >>
                ELSE /\ error' = "none"
                     /\ pc' = "count"
                     /\ simParams' = loaded.value.simParams
                     /\ obstacleAvoidRule' = loaded.value.obstacleAvoidRule
                     /\ boids' = loaded.value.boids
                     /\ currentWorldName' = loaded.value.currentWorldName
                     /\ currentRendering' = loaded.value.currentRendering
       ELSE /\ error' = "none"
            /\ pc' = "count"
            /\ UNCHANGED << simParams, obstacleAvoidRule, boids,
                            currentWorldName, currentRendering >>
    /\ UNCHANGED << nextBoidId, idx, args, edits, snapshot, issuedIds,
                    countLog, enabledDropoff, clicked, weights, requested, leaders >>

Update_Begin == Update_BeginWithin(MaxTicks)

\* this.updateBoidCount(), with the values of Math.random() drawn from a set.
Update_BoidCountWith(drawSet) ==
    /\ pc = "count"
    /\ \E draws \in [1 .. Generations(simParams.boidCount - 2 * Len(boids))
                       -> drawSet] :
         LET done == UpdateBoidCount(boids, nextBoidId, simParams, draws)
         IN  /\ boids' = done.boids
             /\ nextBoidId' = done.nextBoidId
             /\ issuedIds' = issuedIds \o done.issued
             /\ countLog' = [ran |-> TRUE, before |-> boids,
                             after |-> done.boids,
                             target |-> simParams.boidCount,
                             popUndefined |-> done.popUndefined,
                             error |-> done.error]
             /\ IF done.error = "none"
                THEN /\ pc' = "boid"
                     /\ idx' = 1
                     /\ snapshot' = done.boids
                     /\ error' = error
                ELSE /\ pc' = "idle"
                     /\ idx' = 0
                     /\ snapshot' = << >>
                     /\ error' = done.error
    /\ UNCHANGED << simParams, currentWorldName, currentRendering,
                    obstacleAvoidRule, args, ticks, edits, enabledDropoff,
                    clicked, weights, requested, leaders >>

\* this.updateBoidCount()
Update_BoidCount == Update_BoidCountWith(GenerateDraws)

\* this.getBoidNeighbours(boid), for the next boid of this.boids.map
Update_Neighbours ==
    /\ pc = "boid"
    /\ idx <= Len(boids)
    /\ args' = GetBoidNeighbours(boids, idx, simParams.visibilityThreshold)
    /\ pc' = Head(UpdateAndMoveOrder)
    /\ IF simParams.boidType = "ChangeOfLeader"
       THEN \E eccentricity \in EccentricityInputs, draw \in LeaderDraws :
                leaders' = ChangeOfLeader(leaders, boids[idx].id, Len(args'),
                               eccentricity, draw,
                               simParams.changeOfLeaderBoidOptions)
       ELSE UNCHANGED leaders
    /\ UNCHANGED << simParams, currentWorldName, currentRendering, boids,
                    nextBoidId, obstacleAvoidRule, idx, error, ticks, edits,
                    snapshot, issuedIds, countLog, enabledDropoff, clicked,
                    weights, requested >>

\* updateAndMove: the loop over the rules.  A rule that throws ends update().
\* The boid, its neighbours, simParams and the world are the objects the
\* rules were handed: they are left as the loop leaves them.
Boid_Rules ==
    /\ pc = "rules"
    /\ LET done == RulesLoop(RulesFor(boids[idx].id, leaders,
                                      WithWeights(rules, weights)),
                             boids[idx],
                       RuleArguments(Resolve(boids, args), simParams),
                       obstacleAvoidRule.world)
       IN  /\ boids' = [j \in 1 .. Len(boids) |->
                           IF j = idx THEN done.value
                           ELSE IF \E k \in 1 .. Len(args) : args[k] = j
                           THEN done.args.neighbours[
                                    CHOOSE k \in 1 .. Len(args) : args[k] = j]
                           ELSE boids[j]]
           /\ simParams' = done.args.simParams
           /\ obstacleAvoidRule' =
                  [obstacleAvoidRule EXCEPT !.world = done.world]
           /\ IF done.thrown
              THEN /\ error' = done.error
                   /\ pc' = "idle"
                   /\ idx' = 0
                   /\ args' = << >>
                   /\ snapshot' = << >>
              ELSE /\ pc' = StageAfter("rules")
                   /\ idx' = IF pc' = "boid" THEN idx + 1 ELSE idx
                   /\ UNCHANGED << error, args, snapshot >>
    /\ UNCHANGED << currentWorldName, currentRendering, nextBoidId,
                    ticks, edits, issuedIds, countLog,
                    enabledDropoff, clicked, weights, requested, leaders >>

\* updateAndMove: this.capSpeed(ruleArguments.simParams.maxSpeed)
Boid_CapSpeed ==
    /\ pc = "cap"
    /\ boids' = [boids EXCEPT ![idx] = CapSpeed(@, simParams.maxSpeed)]
    /\ pc' = StageAfter("cap")
    /\ idx' = IF pc' = "boid" THEN idx + 1 ELSE idx
    /\ UNCHANGED << simParams, currentWorldName, currentRendering, nextBoidId,
                    obstacleAvoidRule, args, error, ticks, edits,
                    snapshot, issuedIds, countLog, enabledDropoff, clicked, weights, requested, leaders >>

\* updateAndMove: this.addRandomnessToVelocity(ruleArguments)
Boid_AddRandomness ==
    /\ pc = "random"
    /\ \E draw \in BiasDraws :
         boids' = [boids EXCEPT
                      ![idx] = AddRandomnessToVelocity(@, simParams, draw)]
    /\ pc' = StageAfter("random")
    /\ idx' = IF pc' = "boid" THEN idx + 1 ELSE idx
    /\ UNCHANGED << simParams, currentWorldName, currentRendering, nextBoidId,
                    obstacleAvoidRule, args, error, ticks, edits,
                    snapshot, issuedIds, countLog, enabledDropoff, clicked, weights, requested, leaders >>

\* updateAndMove: this.move(); the map goes on to the next boid.
Boid_Move ==
    /\ pc = "move"
    /\ boids' = [boids EXCEPT ![idx] = Move(@)]
    /\ pc' = StageAfter("move")
    /\ idx' = IF pc' = "boid" THEN idx + 1 ELSE idx
    /\ UNCHANGED << simParams, currentWorldName, currentRendering, nextBoidId,
                    obstacleAvoidRule, args, error, ticks, edits, snapshot,
                    issuedIds, countLog, enabledDropoff, clicked, weights, requested, leaders >>

\* Every boid is updated: super.update() renders and update() returns.
Update_End ==
    /\ pc = "boid"
    /\ idx > Len(boids)
    /\ pc' = "idle"
    /\ idx' = 0
    /\ snapshot' = << >>
    /\ args' = << >>
    /\ UNCHANGED << simParams, currentWorldName, currentRendering, boids,
                    nextBoidId, obstacleAvoidRule, error, ticks, edits,
                    issuedIds, countLog, enabledDropoff, clicked, weights, requested, leaders >>

Next ==
    \/ SetWorldName
    \/ SetRendering
    \/ SetBoidCount
    \/ SetMaxSpeed
    \/ SetVisibilityThreshold
    \/ SetRandomnessPerTimestep
    \/ SetRandomnessLimit
    \/ ToggleDropoff
    \/ SetRuleWeight
    \/ Update_Begin
    \/ Update_BoidCount
    \/ Update_Neighbours
    \/ Boid_Rules
    \/ Boid_CapSpeed
    \/ Boid_AddRandomness
    \/ Boid_Move
    \/ Update_End

Spec == Init /\ [][Next]_vars

(***************************************************************************)
(* The simulation constructed in the world with the cylinder, without       *)
(* randomness, its boids generated on the axis of the cylinder and beside   *)
(* the cylinder, at rest.                                                   *)
(***************************************************************************)
\* Math.random() in generateWithRandomPosAndVel: x on the axis of the
\* cylinder of obstacles1, at the centre of the world or a little beside it,
\* and no velocity.
ObstacleDraws ==
    { [px |-> p, py |-> 2000, pz |-> 2000, vx |-> 2000, vy |-> 2000, vz |-> 2000] :
        p \in {1700, 2000, 2101} }

InitObstacles ==
    Constructed([InitParams EXCEPT !.worldName = obstacles1.name,
                                   !.randomnessPerTimestep = 0,
                                   !.dropoffRule = Owned(NoDropoff(Scale))])

Update_BoidCountObstacles == Update_BoidCountWith(ObstacleDraws)

NextObstacles ==
    \/ SetRuleWeight
    \/ SetMaxSpeed
    \/ Update_Begin
    \/ Update_BoidCountObstacles
    \/ Update_Neighbours
    \/ Boid_Rules
    \/ Boid_CapSpeed
    \/ Boid_AddRandomness
    \/ Boid_Move
    \/ Update_End

SpecObstacles == InitObstacles /\ [][NextObstacles]_vars

(***************************************************************************)
(* The simulation constructed with boids of type ChangeOfLeader.            *)
(***************************************************************************)
InitLeader == Constructed([InitParams EXCEPT !.boidType = "ChangeOfLeader"])

NextLeader ==
    \/ SetNeighbourCountThreshold
    \/ Update_Begin
    \/ Update_BoidCount
    \/ Update_Neighbours
    \/ Boid_Rules
    \/ Boid_CapSpeed
    \/ Boid_AddRandomness
    \/ Boid_Move
    \/ Update_End

SpecLeader == InitLeader /\ [][NextLeader]_vars

(***************************************************************************)
(* The simulation with the "Limit" control of the randomness brought down   *)
(* to its lowest values.                                                    *)
(***************************************************************************)
\* The values set on simParams.randomnessLimit: the least the control gives
\* and the least above it (the step of the control is 0.01).
LowRandomnessLimitInputs == {0, Scale \div 100}

SetLowRandomnessLimit ==
    \E l \in LowRandomnessLimitInputs : Edit("randomnessLimit", l)

InitRandomness == Constructed(InitParams)

NextRandomness ==
    \/ SetLowRandomnessLimit
    \/ SetRandomnessPerTimestep
    \/ Update_Begin
    \/ Update_BoidCount
    \/ Update_Neighbours
    \/ Boid_Rules
    \/ Boid_CapSpeed
    \/ Boid_AddRandomness
    \/ Boid_Move
    \/ Update_End

SpecRandomness == InitRandomness /\ [][NextRandomness]_vars

(***************************************************************************)
(* The simulation constructed with a whole or a fractional boid-count       *)
(* target, its world and its rendering changed between ticks.               *)
(***************************************************************************)
\* simParams.boidCount of the params handed to the constructor, in halves.
BoidCountParams == {3, 4}

InitReload ==
    \E c \in BoidCountParams : Constructed([InitParams EXCEPT !.boidCount = c])

NextReload ==
    \/ SetWorldName
    \/ SetRendering
    \/ Update_Begin
    \/ Update_BoidCount
    \/ Update_Neighbours
    \/ Boid_Rules
    \/ Boid_CapSpeed
    \/ Boid_AddRandomness
    \/ Boid_Move
    \/ Update_End

SpecReload == InitReload /\ [][NextReload]_vars

(***************************************************************************)
(* The simulation of one boid whose world name is set, by a caller, to a    *)
(* name that is not registered, and set back.                               *)
(***************************************************************************)
InitUnknownWorld == Constructed([InitParams EXCEPT !.boidCount = 2])

SetWorldNameUnknownWorld ==
    \E n \in WorldNameInputs : EditWithin("worldName", n, MaxEditsUnknownWorld)

Update_BeginUnknownWorld == Update_BeginWithin(MaxTicksUnknownWorld)

NextUnknownWorld ==
    \/ SetWorldNameUnknownWorld
    \/ Update_BeginUnknownWorld
    \/ Update_BoidCount
    \/ Update_Neighbours
    \/ Boid_Rules
    \/ Boid_CapSpeed
    \/ Boid_AddRandomness
    \/ Boid_Move
    \/ Update_End

SpecUnknownWorld == InitUnknownWorld /\ [][NextUnknownWorld]_vars

(***************************************************************************)
(* Properties.                                                              *)
(***************************************************************************)
\* The boids whose updateAndMove has completed in the running tick.
Updated == IF pc = "boid" THEN 1 .. (idx - 1) ELSE {}

\* |v| <= maxSpeed + |b|, decided on the squares.
WithinCapPlusBias(v, maxSpeed, b) ==
    LET excess == LengthSq(v) - maxSpeed * maxSpeed - LengthSq(b)
    IN  excess <= FloorSqrt(4 * maxSpeed * maxSpeed * LengthSq(b))

\* The names of the registered worlds.
Registered == {worlds[i].name : i \in 1 .. Len(worlds)}

\* update() is running: a boid is about to be generated or updated.
InTick == pc \in {"count", "boid", "rules", "cap", "random", "move"}

\* C1: the neighbours handed to a boid are those it sees among the positions
\* the boids had when this tick's updates began.
C1_SnapshotNeighbours ==
    pc = "rules" =>
        args = GetBoidNeighbours(snapshot, idx, simParams.visibilityThreshold)

\* C2: once a boid's updateAndMove has completed, its speed is at most
\* maxSpeed plus the magnitude of its random bias.
C2_SpeedWithinCapPlusBias ==
    \A i \in Updated :
        WithinCapPlusBias(boids[i].velocity, simParams.maxSpeed,
                          boids[i].randomBias)

\* C2 witness: a boid has completed its update with a non-zero bias and a
\* speed above maxSpeed.
C2_Witness ==
    \E i \in Updated :
        /\ boids[i].randomBias # ZeroVec
        /\ LengthSq(boids[i].velocity) > simParams.maxSpeed * simParams.maxSpeed

\* C3 as stated: once a boid's updateAndMove has completed, its speed is at
\* most maxSpeed.
C3_SpeedWithinCap ==
    \A i \in Updated :
        LengthSq(boids[i].velocity) <= simParams.maxSpeed * simParams.maxSpeed

\* C3 amended: once a boid's updateAndMove has completed, its velocity less
\* its random bias (the velocity the cap left) is no longer than maxSpeed.
C3_CappedBeforeBias ==
    \A i \in Updated :
        LengthSq(VSub(boids[i].velocity, boids[i].randomBias))
            <= simParams.maxSpeed * simParams.maxSpeed

\* C3 witness: a boid has completed its update faster than maxSpeed, and the
\* velocity the cap left it is exactly maxSpeed long.
C3_Witness ==
    \E i \in Updated :
        /\ LengthSq(boids[i].velocity) > simParams.maxSpeed * simParams.maxSpeed
        /\ LengthSq(VSub(boids[i].velocity, boids[i].randomBias))
               = simParams.maxSpeed * simParams.maxSpeed

\* C4: in one boid's update the rules come first, then the cap, then the
\* randomness, then the move; only the move changes a position, it advances
\* it by the velocity that holds the bias, and the cap leaves a velocity no
\* longer than maxSpeed to which only the bias is added.
C4_StepOrder ==
    [][ /\ (pc = "rules" /\ pc' # "idle") => pc' = "cap"
        /\ pc = "cap" =>
              /\ pc' = "random"
              /\ LengthSq(boids'[idx].velocity)
                     <= simParams.maxSpeed * simParams.maxSpeed
              /\ boids'[idx].randomBias = boids[idx].randomBias
        /\ pc = "random" =>
              /\ pc' = "move"
              /\ boids'[idx].velocity
                     = VAdd(boids[idx].velocity, boids'[idx].randomBias)
        /\ pc = "move" =>
              /\ pc' = "boid"
              /\ boids'[idx].velocity = boids[idx].velocity
              /\ boids'[idx].position
                     = VAdd(boids[idx].position, boids[idx].velocity)
        /\ pc \in {"rules", "cap", "random"} =>
              \A i \in 1 .. Len(boids) : boids'[i].position = boids[i].position
      ]_vars

\* C4 witness: a boid has gone through all four steps: it was capped, carries
\* a bias and has left the position it had when the tick's updates began.
C4_Witness ==
    \E i \in Updated :
        /\ boids[i].randomBias # ZeroVec
        /\ boids[i].position # snapshot[i].position
        /\ boids[i].position = VAdd(snapshot[i].position, boids[i].velocity)
        /\ LengthSq(snapshot[i].velocity)
               > simParams.maxSpeed * simParams.maxSpeed

\* C5: whenever a boid is generated or updated, the world bounds, the world
\* the obstacle rule holds and currentWorldName are those of the world that
\* simParams.worldName names.
C5_WorldConsistent ==
    InTick =>
        LET found == GetWorldByName(worlds, simParams.worldName)
        IN  /\ ~found.thrown
            /\ simParams.worldDimens = found.value.bounds
            /\ obstacleAvoidRule.world = found.value
            /\ currentWorldName = simParams.worldName

\* C5 witness: a boid is being updated in a world with obstacles that the
\* simulation switched to.
C5_Witness ==
    /\ pc = "rules"
    /\ currentWorldName = obstacles1.name
    /\ obstacleAvoidRule.world.cylinders # << >>

\* C6: a call of update() that finds an unregistered world name throws
\* "World not found."; it neither loads another world nor updates a boid.
C6_UnknownWorldReported ==
    [][ (pc = "idle" /\ ticks' # ticks /\ simParams.worldName \notin Registered)
          => /\ error' = "World not found."
             /\ pc' = "idle"
             /\ UNCHANGED << simParams, obstacleAvoidRule, boids,
                             currentWorldName, currentRendering >>
      ]_vars

\* C6 witness: update() has thrown "World not found." while boids of the
\* previous world were live.
C6_Witness ==
    /\ error = "World not found."
    /\ simParams.worldName \notin Registered
    /\ boids # << >>

\* C7: when updateBoidCount meets N boids and a whole target M, 0 <= M < N,
\* it leaves the first M boids, in order and unchanged.
C7_ShrinkKeepsPrefix ==
    (/\ countLog.ran
     /\ countLog.target >= 0
     /\ countLog.target % 2 = 0
     /\ countLog.target < 2 * Len(countLog.before))
        => countLog.after = SubSeq(countLog.before, 1, countLog.target \div 2)

\* C7 witness: updateBoidCount has cut two boids down to one, and the one
\* that stayed had moved and carried a random bias.
C7_Witness ==
    /\ countLog.ran
    /\ countLog.target = 2
    /\ Len(countLog.before) = 2
    /\ Len(countLog.after) = 1
    /\ countLog.before[1].randomBias # ZeroVec

\* C8: after updateBoidCount, the number of boids equals the target, for
\* every target of the slider's kind (not negative, whole or not).
C8_CountEqualsTarget ==
    (countLog.ran /\ countLog.target >= 0)
        => 2 * Len(countLog.after) = countLog.target

\* C9: when updateBoidCount pops from the empty collection it raises no
\* error and leaves the collection empty.
C9_UnderflowIsNoOp ==
    countLog.popUndefined
        => /\ countLog.error = "none"
           /\ countLog.after = << >>

\* C9 witness: updateBoidCount met live boids and a negative target, popped
\* them all and then popped from the empty collection; the tick went on.
C9_Witness ==
    /\ countLog.popUndefined
    /\ countLog.target < 0
    /\ countLog.before # << >>
    /\ pc = "boid"

\* C10: the ids handed out increase strictly, and the live boids carry
\* distinct ids that were handed out.
C10_IdsUnique ==
    /\ \A i, j \in 1 .. Len(issuedIds) : i < j => issuedIds[i] < issuedIds[j]
    /\ \A i, j \in 1 .. Len(boids) : i # j => boids[i].id # boids[j].id
    /\ \A i \in 1 .. Len(boids) :
           \E k \in 1 .. Len(issuedIds) : issuedIds[k] = boids[i].id

\* C10 witness: after a reload, boids generated later are live beside none of
\* the earlier ones.
C10_Witness ==
    /\ Len(issuedIds) >= 4
    /\ Len(boids) = 2
    /\ boids[1].id >= 2

\* The square of the distance between the boids at indices i and j.
DistanceSq(i, j) == LengthSq(VSub(boids[i].position, boids[j].position))

\* The indices that a sequence of neighbours holds.
Indices(neighbours) == {neighbours[k] : k \in 1 .. Len(neighbours)}

\* C11: the neighbours handed to a boid are exactly the other live boids
\* strictly nearer than visibilityThreshold: never the boid itself, never a
\* boid at exactly that distance, and a boid is among them if and only if
\* this boid is among that boid's neighbours on the same positions.
C11_NeighboursExact ==
    pc = "rules" =>
        LET vt == simParams.visibilityThreshold
        IN  /\ Indices(args) =
                   {j \in 1 .. Len(boids) :
                       j # idx /\ DistanceSq(idx, j) < vt * vt}
            /\ idx \notin Indices(args)
            /\ \A j \in 1 .. Len(boids) :
                   /\ DistanceSq(idx, j) = vt * vt => j \notin Indices(args)
                   /\ j \in Indices(args)
                          <=> idx \in Indices(GetBoidNeighbours(boids, j, vt))

\* A boid is handed its neighbours while another boid is exactly
\* visibilityThreshold away from it.
C11_Witness ==
    /\ pc = "rules"
    /\ \E j \in 1 .. Len(boids) :
           /\ j # idx
           /\ DistanceSq(idx, j)
                  = simParams.visibilityThreshold * simParams.visibilityThreshold
           /\ j \notin Indices(args)

\* C12: once a dropoff checkbox has been clicked, exactly one of the
\* enabledDropoff flags is true and simParams.dropoffRule is the element of
\* dropoffs that the flag stands for.
C12_ExactlyOneActive ==
    clicked.index >= 0 =>
        \E k \in DOMAIN enabledDropoff :
            /\ enabledDropoff[k]
            /\ \A j \in DOMAIN enabledDropoff \ {k} : ~enabledDropoff[j]
            /\ simParams.dropoffRule = [at |-> "dropoffs", index |-> k]

\* C13: while a tick runs after the checkbox of dropoff k was switched on,
\* simParams.dropoffRule, which every rule evaluation of the tick reads, is
\* dropoffs[k].
C13_SwitchTakesEffect ==
    (InTick /\ clicked.index >= 0 /\ clicked.value) =>
        /\ simParams.dropoffRule = [at |-> "dropoffs", index |-> clicked.index]
        /\ Deref(simParams.dropoffRule) = dropoffs[clicked.index + 1]

\* The proportional dropoffs that the simulation holds: those of dropoffs
\* and the active one.
HeldProportional ==
    {d \in {dropoffs[n] : n \in 1 .. Len(dropoffs)}
              \cup {Deref(simParams.dropoffRule)} :
        d.name = "ProportionalDropoff"}

\* C14: while a tick runs, the radius of every proportional dropoff is the
\* visibilityThreshold that simParams holds.
C14_RadiusReadLive ==
    InTick => \A d \in HeldProportional :
                  d.radius = simParams.visibilityThreshold

\* C15: a weight outside the bounds of its rule, asked of a weight control,
\* is reported as a failure: once such a weight was asked for, a failure is
\* on record.
C15_OutOfBoundsReported ==
    (/\ requested.rule > 0
     /\ \/ requested.weight < rules[requested.rule].minWeight
        \/ requested.weight > rules[requested.rule].maxWeight)
        => error # "none"

\* C16: for a boid handed no neighbours, Separation and Cohesion return the
\* zero vector, whatever the boid, the weights and the dropoff are.
C16_NoNeighboursZero ==
    (pc = "rules" /\ args = << >>) =>
        LET rs == WithWeights(rules, weights)
            ruleArguments == RuleArguments(Resolve(boids, args), simParams)
        IN  /\ SeparationRule(rs[1], boids[idx], ruleArguments)
                   = Returned(ZeroVec)
            /\ CohesionRule(rs[2], boids[idx], ruleArguments)
                   = Returned(ZeroVec)

\* A boid away from the origin is handed no neighbours while
\* simParams.dropoffRule is undefined.
C16_Witness ==
    /\ pc = "rules"
    /\ args = << >>
    /\ boids[idx].position # ZeroVec
    /\ simParams.dropoffRule.at = "undefined"

\* C17: for a boid whose neighbours all weigh zero, Separation and Cohesion
\* both return the zero vector, and the rules of the boid throw nothing.
C17_ZeroWeightSumZero ==
    LET rs == WithWeights(rules, weights)
        ruleArguments == RuleArguments(Resolve(boids, args), simParams)
        dropoff == Deref(simParams.dropoffRule)
    IN  (/\ pc = "rules"
         /\ args # << >>
         /\ dropoff.name # "undefined"
         /\ SeparationSum(boids[idx], ruleArguments.neighbours, dropoff,
                          [separation |-> ZeroVec, weightSum |-> 0]).weightSum
                = 0)
        => /\ SeparationRule(rs[1], boids[idx], ruleArguments)
                  = Returned(ZeroVec)
           /\ CohesionRule(rs[2], boids[idx], ruleArguments)
                  = Returned(ZeroVec)
           /\ ~RulesLoop(rs, boids[idx], ruleArguments,
                         obstacleAvoidRule.world).thrown

\* The running tick updates the one boid of a simulation whose target is 1,
\* in a world without obstacles.
SingleBoid ==
    /\ simParams.boidCount = 2
    /\ Len(boids) = 1
    /\ Len(snapshot) = 1
    /\ obstacleAvoidRule.world.cylinders = << >>

TheCylinder == obstacleAvoidRule.world.cylinders[1]

\* The positions the obstacle force is compared on: those of the boids and,
\* at the height of the world's floor, the axis of the cylinder, two points
\* inside it and one on its surface.
ComparedPositions ==
    {boids[i].position : i \in 1 .. Len(boids)}
        \cup {Vec(TheCylinder.basePoint.x + dx, 0, TheCylinder.basePoint.z) :
                  dx \in {0, TheCylinder.radius \div 2,
                          -((4 * TheCylinder.radius) \div 5),
                          TheCylinder.radius}}

\* The planar vector from the axis of the cylinder to a position.
FromAxis(position) ==
    Vec(position.x - TheCylinder.basePoint.x, 0,
        position.z - TheCylinder.basePoint.z)

\* The planar distance of a position from the surface of the cylinder,
\* zero inside it.
SurfaceDistance(position) ==
    LET raw == Length(FromAxis(position)) - TheCylinder.radius
    IN  IF raw < 0 THEN 0 ELSE raw

\* The length of a vector; that of a vector along x is read off x.
Magnitude(v) == IF v.y = 0 /\ v.z = 0 THEN Abs(v.x) ELSE Length(v)

\* The magnitude of the force of the obstacle rule on a boid at a position.
ObstacleForce(position) ==
    Magnitude(ObstacleAvoidanceRule(WithWeights(rules, weights)[3],
                                    [position |-> position],
                                    obstacleAvoidRule.world).value)

\* C19 as stated: of two positions, the one nearer to the surface of the
\* cylinder (inside counting as distance zero) bears a force at least as
\* large; so all positions inside bear the same force.
C19_ForceNonIncreasing ==
    (pc = "rules" /\ Len(obstacleAvoidRule.world.cylinders) = 1) =>
        \A p, q \in ComparedPositions :
            SurfaceDistance(p) <= SurfaceDistance(q)
                => ObstacleForce(p) >= ObstacleForce(q)

\* C19, amended: the same, for positions off the axis of the cylinder; on
\* the axis the force is zero.
C19_ForceNonIncreasingOffAxis ==
    (pc = "rules" /\ Len(obstacleAvoidRule.world.cylinders) = 1) =>
        \A p, q \in ComparedPositions :
            /\ FromAxis(p) = ZeroVec => ObstacleForce(p) = 0
            /\ (/\ FromAxis(p) # ZeroVec
                /\ FromAxis(q) # ZeroVec
                /\ SurfaceDistance(p) <= SurfaceDistance(q))
                   => ObstacleForce(p) >= ObstacleForce(q)

\* The rules are evaluated for a boid while one boid is on the axis of the
\* cylinder and another is off it and bears a force.
C19_Witness ==
    /\ pc = "rules"
    /\ Len(obstacleAvoidRule.world.cylinders) = 1
    /\ \E i, j \in 1 .. Len(boids) :
           /\ FromAxis(boids[i].position) = ZeroVec
           /\ FromAxis(boids[j].position) # ZeroVec
           /\ ObstacleForce(boids[j].position) > 0

BiasUpdated == Updated \cup (IF pc = "move" THEN {idx} ELSE {})

\* C22 as stated: once updateRandomBias has been called on a boid in a tick,
\* the random bias of the boid is no longer than randomnessLimit.
C22_BiasWithinLimit ==
    \A i \in BiasUpdated :
        LengthSq(boids[i].randomBias)
            <= simParams.randomnessLimit * simParams.randomnessLimit

\* C22, amended: the same, for a randomnessLimit above zero.
C22_BiasWithinPositiveLimit ==
    simParams.randomnessLimit > 0 =>
        \A i \in BiasUpdated :
            LengthSq(boids[i].randomBias)
                <= simParams.randomnessLimit * simParams.randomnessLimit

\* updateRandomBias has scaled back the bias of a boid under a limit above
\* zero that was lowered between two ticks: the bias is not zero and shorter
\* than one step of the randomness is.
C22_Witness ==
    /\ pc = "move"
    /\ ticks = 2
    /\ simParams.randomnessLimit = Scale \div 100
    /\ boids[idx].randomBias # ZeroVec
    /\ Abs(boids[idx].randomBias.x) < 5

\* C23: when the rules are evaluated for a boid that has a neighbour, under
\* an active dropoff, Cohesion weighs the neighbours with that dropoff, as
\* Separation does: on the arguments that update() passes it yields what it
\* yields when handed simParams.dropoffRule as args.dropoff; and neither
\* rule, nor the loop over the rules, throws.
C23_SameDropoffNoError ==
    LET rs == WithWeights(rules, weights)
        ruleArguments == RuleArguments(Resolve(boids, args), simParams)
        dropoff == Deref(simParams.dropoffRule)
    IN  (pc = "rules" /\ args # << >> /\ dropoff.name # "undefined")
        => /\ ~SeparationRule(rs[1], boids[idx], ruleArguments).thrown
           /\ ~CohesionRule(rs[2], boids[idx], ruleArguments).thrown
           /\ CohesionRule(rs[2], boids[idx], ruleArguments)
                  = CohesionRule(rs[2], boids[idx],
                        [neighbours |-> ruleArguments.neighbours,
                         simParams |-> ruleArguments.simParams,
                         dropoff |-> dropoff])
           /\ ~RulesLoop(rs, boids[idx], ruleArguments,
                         obstacleAvoidRule.world).thrown

\* update() is about to start and will find the world name (a registered
\* one) or the rendering changed.
DetectsChange ==
    /\ pc = "idle"
    /\ simParams.worldName \in Registered
    /\ \/ currentWorldName # simParams.worldName
       \/ currentRendering # simParams.rendering

\* updateBoidCount is about to run in a tick that has discarded the boids
\* left by the last run of updateBoidCount.
Discarded ==
    /\ pc = "count"
    /\ countLog.ran
    /\ countLog.after # << >>
    /\ boids = << >>

\* C24: a tick that finds the world name or the rendering changed removes
\* every boid and records the world name and the rendering; updateBoidCount
\* then refills the collection to the target (one that is not negative) with
\* boids whose ids are greater than every id issued before; and the recorded
\* world name and rendering are those of simParams to the end of the tick.
C24_ReloadDiscardsAndRefills ==
    [][ /\ (DetectsChange /\ ticks' # ticks) =>
              /\ boids' = << >>
              /\ pc' = "count"
        /\ (Discarded /\ simParams.boidCount >= 0) =>
              /\ 2 * Len(boids') = simParams.boidCount
              /\ \A i \in 1 .. Len(boids') :
                     /\ \A k \in 1 .. Len(issuedIds) :
                            boids'[i].id > issuedIds[k]
                     /\ \A j \in 1 .. Len(countLog.after) :
                            boids'[i].id # countLog.after[j].id
        /\ (InTick \/ (DetectsChange /\ ticks' # ticks)) =>
              /\ currentWorldName' = simParams'.worldName
              /\ currentRendering' = simParams'.rendering
      ]_vars

\* update() is called while simParams.worldName names no registered world.
FailingTick ==
    pc = "idle" /\ ticks' # ticks /\ simParams.worldName \notin Registered

\* update() is called with a registered world name after a call that threw
\* "World not found.".
RecoveringTick ==
    /\ pc = "idle"
    /\ ticks' # ticks
    /\ error = "World not found."
    /\ simParams.worldName \in Registered

\* C25 as stated: every call of update() under an unregistered world name
\* throws and changes nothing, and the first call after the name was set
\* back to a registered one reloads the world (it removes the boids and
\* records the name) and goes on.
C25_FailsThenReloads ==
    [][ /\ FailingTick =>
              /\ error' = "World not found."
              /\ pc' = "idle"
              /\ UNCHANGED << simParams, obstacleAvoidRule, boids,
                              currentWorldName, currentRendering, nextBoidId >>
        /\ RecoveringTick =>
              /\ error' = "none"
              /\ pc' = "count"
              /\ boids' = << >>
              /\ currentWorldName' = simParams.worldName
              /\ obstacleAvoidRule'.world.name = simParams.worldName
      ]_vars

\* C25, amended: every call of update() under an unregistered world name
\* throws and changes nothing; the first call after the name was set back to
\* a registered one goes on, and it reloads the world only if that name is
\* not currentWorldName (or the rendering is not currentRendering):
\* otherwise it keeps the world and the boids it had.
C25_FailsThenProceeds ==
    [][ /\ FailingTick =>
              /\ error' = "World not found."
              /\ pc' = "idle"
              /\ UNCHANGED << simParams, obstacleAvoidRule, boids,
                              currentWorldName, currentRendering, nextBoidId >>
        /\ RecoveringTick =>
              /\ error' = "none"
              /\ pc' = "count"
              /\ currentWorldName' = simParams.worldName
              /\ obstacleAvoidRule'.world.name = simParams.worldName
              /\ IF \/ currentWorldName # simParams.worldName
                    \/ currentRendering # simParams.rendering
                 THEN boids' = << >>
                 ELSE UNCHANGED << simParams, obstacleAvoidRule, boids,
                                  currentWorldName, currentRendering >>
      ]_vars

\* The fourth call of update() has gone past the test for a reload with the
\* boid it had: the boid was generated into the empty collection by the last
\* run of updateBoidCount, in the first call, so the second and the third
\* call threw before they reached updateBoidCount.
C25_Witness ==
    /\ pc = "count"
    /\ ticks = 4
    /\ error = "none"
    /\ countLog.ran
    /\ countLog.before = << >>
    /\ boids # << >>
    /\ boids[1].position # countLog.after[1].position
    /\ currentWorldName = simParams.worldName

====
